---- MODULE Spec2Model ----
(***************************************************************************)
(* Model of ros/src/tl_detector/tl_detector.py: the TLDetector node.       *)
(*                                                                         *)
(* The node caches the latest pose, route and traffic-light messages, and  *)
(* on every camera frame resolves the relevant light to a route waypoint   *)
(* (process_traffic_lights, built on get_closest_waypoint) and debounces   *)
(* the raw color before publishing on /traffic_waypoint (image_cb).        *)
(*                                                                         *)
(* Encoding of Python values:                                              *)
(*   - None, where an object is expected, is the record None;              *)
(*   - None, where a list index is expected, is the integer NoneIdx, which *)
(*     is outside every index range (Python's -1 is a different value);    *)
(*   - a list that a parameter may also receive as None is passed as       *)
(*     PyList(seq);                                                        *)
(*   - list indices are Python's (0-based); subscript does the indexing;   *)
(*   - a position is <<x, y>> with integer coordinates, an orientation is  *)
(*     the forward vector of the quaternion (line 151);                    *)
(*   - x.pose stands for the message path x.pose.pose;                     *)
(*   - distances are kept squared (see get_distance_between_poses).        *)
(***************************************************************************)
EXTENDS Integers, Sequences, FiniteSets, TLC

VARIABLES
    pose,                       \* self.pose: None or a PoseStamped
    waypoints,                  \* self.waypoints: None or a Lane
    lights,                     \* self.lights: list of TrafficLight
    stop_line_positions_poses,  \* self.stop_line_positions_poses
    has_image,                  \* self.has_image (set by image_cb only)
    state,                      \* self.state: raw color of the last frame
    last_state,                 \* self.last_state: committed color
    last_wp,                    \* self.last_wp: last committed index
    state_count,                \* self.state_count
    published,                  \* values put on /traffic_waypoint by the last callback
    branch,                     \* the branch image_cb took if it was the last callback, else "-"
    ret,                        \* what process_traffic_lights returned or raised in it
    run,                        \* history: the current run of frames with one raw color
    seen_red,                   \* history: some frame has resolved to the raw color RED
    pc,                         \* threads: the line image_cb is at, "idle" between frames
    loc,                        \* threads: locals of the frame in progress
    gcw_pc,                     \* position of the stand-alone get_closest_waypoint call
    gcw_args,                   \* its arguments
    gcw_ret                     \* its return value

vars == <<pose, waypoints, lights, stop_line_positions_poses, has_image,
          state, last_state, last_wp, state_count,
          published, branch, ret, run, seen_red, pc, loc,
          gcw_pc, gcw_args, gcw_ret>>

snapshots == <<pose, waypoints, lights>>
stabilizer == <<state, last_state, last_wp, state_count>>
gcw_vars == <<gcw_pc, gcw_args, gcw_ret>>
thread_vars == <<pc, loc>>

-----------------------------------------------------------------------------
(* Constants of the program *)

STATE_COUNT_THRESHOLD == 3

search_range == 400

None == [none |-> TRUE]

NoneIdx == -2

RED == "RED"
YELLOW == "YELLOW"
GREEN == "GREEN"
UNKNOWN == "UNKNOWN"

PyList(s) == [list |-> s]

-----------------------------------------------------------------------------
(* Bounds *)

\* image_cb is not taken once state_count has reached MaxCount
MaxCount == 5

\* longest candidate list of the stand-alone get_closest_waypoint call
MaxCands == 3

-----------------------------------------------------------------------------
(* Messages *)

Pose(x, y, hx, hy) == [position |-> <<x, y>>, orientation |-> <<hx, hy>>]

PoseStamped(x, y, hx, hy) == [pose |-> Pose(x, y, hx, hy)]

Waypoint(x, y) == [pose |-> Pose(x, y, 1, 0)]

Lane(wps) == [waypoints |-> wps]

TrafficLight(x, y, color) == [pose |-> Pose(x, y, 1, 0), state |-> color]

StopLine(x, y) == [pose |-> Pose(x, y, 1, 0), state |-> UNKNOWN]

\* pose messages: at the origin heading +x and -x, and far back on the road
PoseMsgs ==
    { PoseStamped(0, 0, 1, 0), PoseStamped(0, 0, -1, 0),
      PoseStamped(-200, 0, 1, 0) }

\* route messages: five waypoints along x, a one-waypoint route, a route
\* out of range of every stop line
LaneMsgs ==
    { Lane(<<Waypoint(0, 0), Waypoint(10, 0), Waypoint(20, 0),
             Waypoint(30, 0), Waypoint(40, 0)>>),
      Lane(<<Waypoint(20, 0)>>),
      Lane(<<Waypoint(1000, 0)>>) }

\* msg.lights of the traffic-light messages
LightMsgs ==
    { <<>>,
      <<TrafficLight(25, 0, RED)>>,
      <<TrafficLight(25, 0, GREEN)>>,
      <<TrafficLight(25, 0, RED), TrafficLight(-250, 0, YELLOW)>> }

\* config['stop_line_positions'] of the possible configurations
StopLineConfigs ==
    { <<>>,
      <<StopLine(22, 0)>>,
      <<StopLine(22, 0), StopLine(-300, 0)>>,
      <<StopLine(300, 0)>> }

-----------------------------------------------------------------------------
(* get_closest_waypoint *)

\* The squared planar distance.  The code takes math.sqrt of it; on the
\* integer coordinates used here the square root is strictly increasing and
\* exact at the cutoff, so every comparison of two distances, and of a
\* distance with search_range, is made on the squares.
get_distance_between_poses(a, b) ==
    (a.position[1] - b.position[1]) * (a.position[1] - b.position[1])
  + (a.position[2] - b.position[2]) * (a.position[2] - b.position[2])

\* variant: the cutoff test is dropped
in_search_range_nocutoff(dist) == TRUE

\* dist < search_range
in_search_range(dist) == dist < search_range * search_range

\* variant: <= in place of <, the last of equally near candidates wins
lt_min_dist_le(dist, acc) == acc.min_idx = NoneIdx \/ dist <= acc.min_dist

\* dist < min_dist; min_dist is float("inf") exactly as long as min_idx is None
lt_min_dist(dist, acc) == acc.min_idx = NoneIdx \/ dist < acc.min_dist

\* the body of the for loop for candidate i (0-based) on the accumulator
\* acc = [min_dist, min_idx].  The "pass" of line 169 (indented one column
\* short of its block) is read as the last statement of the "forward" branch.
gcw_body(pose_, wps, mode, i, acc) ==
    LET dist == get_distance_between_poses(wps[i + 1].pose, pose_)
    IN  IF lt_min_dist(dist, acc) /\ in_search_range(dist)
        THEN IF mode = "None"
             THEN [min_dist |-> dist, min_idx |-> i]
             ELSE acc      \* "forward": computes the heading, then pass
        ELSE acc

RECURSIVE gcw_loop(_, _, _, _, _)
gcw_loop(pose_, wps, mode, i, acc) ==
    IF i >= Len(wps) THEN acc
    ELSE gcw_loop(pose_, wps, mode, i + 1, gcw_body(pose_, wps, mode, i, acc))

get_closest_waypoint(pose_, waypoints_, mode) ==
    IF waypoints_ = None \/ pose_ = None
    THEN -1
    ELSE gcw_loop(pose_, waypoints_.list, mode, 0,
                  [min_dist |-> 0, min_idx |-> NoneIdx]).min_idx

-----------------------------------------------------------------------------
(* Python list indexing *)

\* the exception list[idx] raises, "none" if it raises none
subscript_exc(list, idx) ==
    IF idx = NoneIdx THEN "TypeError"
    ELSE IF idx >= Len(list) \/ idx < 0 - Len(list) THEN "IndexError"
    ELSE "none"

subscript(list, idx) ==
    IF idx >= 0 THEN list[idx + 1] ELSE list[Len(list) + idx + 1]

-----------------------------------------------------------------------------
(* process_traffic_lights *)

Return(wp, color) == [wp |-> wp, state |-> color, exc |-> "none"]

Raise(e) == [wp |-> -1, state |-> UNKNOWN, exc |-> e]

light_idx == get_closest_waypoint(pose.pose, PyList(lights), "None")

stop_line_idx ==
    get_closest_waypoint(subscript(lights, light_idx).pose,
                         PyList(stop_line_positions_poses), "None")

stop_forward_idx ==
    get_closest_waypoint(pose.pose, PyList(stop_line_positions_poses), "None")

\* variant: the route is searched from the light, not from its stop line
stop_waypoint_idx_by_light ==
    get_closest_waypoint(subscript(lights, light_idx).pose,
                         PyList(waypoints.waypoints), "None")

stop_waypoint_idx ==
    get_closest_waypoint(subscript(stop_line_positions_poses, stop_line_idx).pose,
                         PyList(waypoints.waypoints), "None")

\* variant: the comparison of the two stop-line indices is left out
process_traffic_lights_nocheck ==
    IF pose = None THEN Return(-1, UNKNOWN)
    ELSE IF light_idx = NoneIdx THEN Return(-1, UNKNOWN)
    ELSE IF subscript_exc(lights, light_idx) # "none"
         THEN Raise(subscript_exc(lights, light_idx))
    ELSE IF subscript_exc(stop_line_positions_poses, stop_line_idx) # "none"
         THEN Raise(subscript_exc(stop_line_positions_poses, stop_line_idx))
    ELSE IF waypoints = None THEN Raise("AttributeError")
    ELSE IF stop_waypoint_idx = NoneIdx THEN Return(-1, UNKNOWN)
    ELSE Return(stop_waypoint_idx, subscript(lights, light_idx).state)

process_traffic_lights ==
    IF pose = None THEN Return(-1, UNKNOWN)
    ELSE IF light_idx = NoneIdx THEN Return(-1, UNKNOWN)
    ELSE IF subscript_exc(lights, light_idx) # "none"
         THEN Raise(subscript_exc(lights, light_idx))
    ELSE IF stop_line_idx # stop_forward_idx THEN Return(-1, UNKNOWN)
    ELSE IF subscript_exc(stop_line_positions_poses, stop_line_idx) # "none"
         THEN Raise(subscript_exc(stop_line_positions_poses, stop_line_idx))
    ELSE IF waypoints = None THEN Raise("AttributeError")
    ELSE IF stop_waypoint_idx = NoneIdx THEN Return(-1, UNKNOWN)
    ELSE Return(stop_waypoint_idx, subscript(lights, light_idx).state)

-----------------------------------------------------------------------------
(* The callbacks *)

\* no frame in progress
NoLocals == [light_idx |-> NoneIdx, stop_waypoint_idx |-> NoneIdx, lights |-> <<>>]

Init ==
    /\ pose = None
    /\ waypoints = None
    /\ lights = <<>>
    /\ stop_line_positions_poses \in StopLineConfigs
    /\ has_image = FALSE
    /\ state = UNKNOWN
    /\ last_state = UNKNOWN
    /\ last_wp = -1
    /\ state_count = 0
    /\ published = <<>>
    /\ branch = "-"
    /\ ret = Return(-1, UNKNOWN)
    /\ run = [color |-> UNKNOWN, len |-> 0, first |-> TRUE]
    /\ seen_red = FALSE
    /\ pc = "idle"
    /\ loc = NoLocals
    /\ gcw_pc = "idle"
    /\ gcw_args = None
    /\ gcw_ret = NoneIdx

pose_cb ==
    /\ \E msg \in PoseMsgs : pose' = msg
    /\ published' = <<>>
    /\ branch' = "-"
    /\ ret' = Return(-1, UNKNOWN)
    /\ UNCHANGED <<waypoints, lights, stop_line_positions_poses, has_image,
                   stabilizer, run, seen_red, thread_vars, gcw_vars>>

\* variant: a new route also clears the committed index
waypoints_cb_clears_last_wp ==
    /\ \E msg \in LaneMsgs : waypoints' = msg
    /\ last_wp' = -1
    /\ published' = <<>>
    /\ branch' = "-"
    /\ ret' = Return(-1, UNKNOWN)
    /\ UNCHANGED <<pose, lights, stop_line_positions_poses, has_image,
                   state, last_state, state_count, run, seen_red, thread_vars, gcw_vars>>

waypoints_cb ==
    /\ \E msg \in LaneMsgs : waypoints' = msg
    /\ published' = <<>>
    /\ branch' = "-"
    /\ ret' = Return(-1, UNKNOWN)
    /\ UNCHANGED <<pose, lights, stop_line_positions_poses, has_image,
                   stabilizer, run, seen_red, thread_vars, gcw_vars>>

traffic_cb ==
    /\ \E msg_lights \in LightMsgs : lights' = msg_lights
    /\ published' = <<>>
    /\ branch' = "-"
    /\ ret' = Return(-1, UNKNOWN)
    /\ UNCHANGED <<pose, waypoints, stop_line_positions_poses, has_image,
                   stabilizer, run, seen_red, thread_vars, gcw_vars>>

\* variant: a changed raw color does not reset the counter
stabilize_keeps_count(r) ==
    IF state # r.state
    THEN [state |-> r.state, last_state |-> last_state, last_wp |-> last_wp,
          state_count |-> state_count + 1, published |-> <<>>, branch |-> "change"]
    ELSE IF state_count >= STATE_COUNT_THRESHOLD
    THEN LET light_wp == IF r.state = RED THEN r.wp ELSE -1
         IN  [state |-> state, last_state |-> state, last_wp |-> light_wp,
              state_count |-> state_count + 1, published |-> <<light_wp>>,
              branch |-> "commit"]
    ELSE [state |-> state, last_state |-> last_state, last_wp |-> last_wp,
          state_count |-> state_count + 1, published |-> <<last_wp>>,
          branch |-> "hold"]

\* variant: the commit resets the counter
stabilize_resets_on_commit(r) ==
    IF state # r.state
    THEN [state |-> r.state, last_state |-> last_state, last_wp |-> last_wp,
          state_count |-> 0 + 1, published |-> <<>>, branch |-> "change"]
    ELSE IF state_count >= STATE_COUNT_THRESHOLD
    THEN LET light_wp == IF r.state = RED THEN r.wp ELSE -1
         IN  [state |-> state, last_state |-> state, last_wp |-> light_wp,
              state_count |-> 0 + 1, published |-> <<light_wp>>,
              branch |-> "commit"]
    ELSE [state |-> state, last_state |-> last_state, last_wp |-> last_wp,
          state_count |-> state_count + 1, published |-> <<last_wp>>,
          branch |-> "hold"]

\* variant: the commit does not record the committed color
stabilize_keeps_last_state(r) ==
    IF state # r.state
    THEN [state |-> r.state, last_state |-> last_state, last_wp |-> last_wp,
          state_count |-> 0 + 1, published |-> <<>>, branch |-> "change"]
    ELSE IF state_count >= STATE_COUNT_THRESHOLD
    THEN LET light_wp == IF r.state = RED THEN r.wp ELSE -1
         IN  [state |-> state, last_state |-> last_state, last_wp |-> light_wp,
              state_count |-> state_count + 1, published |-> <<light_wp>>,
              branch |-> "commit"]
    ELSE [state |-> state, last_state |-> last_state, last_wp |-> last_wp,
          state_count |-> state_count + 1, published |-> <<last_wp>>,
          branch |-> "hold"]

\* variant: the commit publishes the resolved index whatever the color
stabilize_any_color(r) ==
    IF state # r.state
    THEN [state |-> r.state, last_state |-> last_state, last_wp |-> last_wp,
          state_count |-> 0 + 1, published |-> <<>>, branch |-> "change"]
    ELSE IF state_count >= STATE_COUNT_THRESHOLD
    THEN [state |-> state, last_state |-> state, last_wp |-> r.wp,
          state_count |-> state_count + 1, published |-> <<r.wp>>,
          branch |-> "commit"]
    ELSE [state |-> state, last_state |-> last_state, last_wp |-> last_wp,
          state_count |-> state_count + 1, published |-> <<last_wp>>,
          branch |-> "hold"]

\* lines 97-107 on the result r of process_traffic_lights: the new
\* stabilizer fields, what is published and the branch taken
stabilize(r) ==
    IF state # r.state
    THEN [state |-> r.state, last_state |-> last_state, last_wp |-> last_wp,
          state_count |-> 0 + 1, published |-> <<>>, branch |-> "change"]
    ELSE IF state_count >= STATE_COUNT_THRESHOLD
    THEN LET light_wp == IF r.state = RED THEN r.wp ELSE -1
         IN  [state |-> state, last_state |-> state, last_wp |-> light_wp,
              state_count |-> state_count + 1, published |-> <<light_wp>>,
              branch |-> "commit"]
    ELSE [state |-> state, last_state |-> last_state, last_wp |-> last_wp,
          state_count |-> state_count + 1, published |-> <<last_wp>>,
          branch |-> "hold"]

\* the history of the run of frames that resolve to one raw color
run_after(r) ==
    IF r.exc # "none" THEN [color |-> UNKNOWN, len |-> 0, first |-> FALSE]
    ELSE IF run.len > 0 /\ run.color = r.state
    THEN [run EXCEPT !.len = @ + 1]
    ELSE [color |-> r.state, len |-> 1, first |-> run.first /\ run.len = 0]

\* the frame resolved to the raw color RED
resolves_red(r) == r.exc = "none" /\ r.state = RED

\* the rest of image_cb once process_traffic_lights has returned or raised r
frame_end(r) ==
    /\ ret' = r
    /\ run' = run_after(r)
    /\ seen_red' = (seen_red \/ resolves_red(r))
    /\ IF r.exc # "none"
       THEN \* the exception leaves the callback; rospy logs it and goes on
            /\ published' = <<>>
            /\ branch' = "raise"
            /\ UNCHANGED stabilizer
       ELSE LET s == stabilize(r)
            IN  /\ state' = s.state
                /\ last_state' = s.last_state
                /\ last_wp' = s.last_wp
                /\ state_count' = s.state_count
                /\ published' = s.published
                /\ branch' = s.branch

image_cb ==
    /\ state_count < MaxCount
    /\ has_image' = TRUE
    /\ frame_end(process_traffic_lights)
    /\ UNCHANGED <<snapshots, stop_line_positions_poses, thread_vars, gcw_vars>>

Next == pose_cb \/ waypoints_cb \/ traffic_cb \/ image_cb

Spec == Init /\ [][Next]_vars

-----------------------------------------------------------------------------
(* The callbacks on threads.  rospy calls the callbacks of each subscription *)
(* on a thread of its own, so pose_cb, waypoints_cb and traffic_cb may run   *)
(* while image_cb is inside process_traffic_lights.  The code takes no lock  *)
(* and no local copy: image_cb is split where it reads self.lights again     *)
(* (lines 223, 230, 253); each piece reads the attributes as they are then.  *)

\* line 230 with the local light_idx li
stop_line_idx_at(li) ==
    get_closest_waypoint(subscript(lights, li).pose,
                         PyList(stop_line_positions_poses), "None")

\* lines 239-241 with the local stop_line_idx si
stop_waypoint_idx_at(si) ==
    get_closest_waypoint(subscript(stop_line_positions_poses, si).pose,
                         PyList(waypoints.waypoints), "None")

\* lines 230-245 with the local light_idx li: what is returned or raised
\* there, Return(i, UNKNOWN) with the matched route index i if the function
\* goes on to line 253
lines_230_245(li) ==
    IF subscript_exc(lights, li) # "none"
    THEN Raise(subscript_exc(lights, li))
    ELSE IF stop_line_idx_at(li) # stop_forward_idx THEN Return(-1, UNKNOWN)
    ELSE IF subscript_exc(stop_line_positions_poses, stop_line_idx_at(li)) # "none"
         THEN Raise(subscript_exc(stop_line_positions_poses, stop_line_idx_at(li)))
    ELSE IF waypoints = None THEN Raise("AttributeError")
    ELSE IF stop_waypoint_idx_at(stop_line_idx_at(li)) = NoneIdx
         THEN Return(-1, UNKNOWN)
    ELSE Return(stop_waypoint_idx_at(stop_line_idx_at(li)), UNKNOWN)

\* lines 253-255 with the locals light_idx li and stop_waypoint_idx wi
lines_253_255(li, wi) ==
    IF subscript_exc(lights, li) # "none"
    THEN Raise(subscript_exc(lights, li))
    ELSE Return(wi, subscript(lights, li).state)

\* lines 86-88 and 217-227
image_l223 ==
    /\ pc = "idle"
    /\ state_count < MaxCount
    /\ has_image' = TRUE
    /\ IF pose = None \/ light_idx = NoneIdx
       THEN /\ frame_end(Return(-1, UNKNOWN))
            /\ UNCHANGED thread_vars
       ELSE /\ pc' = "l230"
            /\ loc' = [light_idx |-> light_idx, stop_waypoint_idx |-> NoneIdx,
                       lights |-> lights]
            /\ UNCHANGED <<stabilizer, published, branch, ret, run, seen_red>>
    /\ UNCHANGED <<snapshots, stop_line_positions_poses, gcw_vars>>

\* lines 230-245
image_l230 ==
    /\ pc = "l230"
    /\ LET r == lines_230_245(loc.light_idx)
       IN  IF r.exc # "none" \/ r.wp = -1
           THEN /\ frame_end(r)
                /\ pc' = "idle"
                /\ loc' = NoLocals
           ELSE /\ pc' = "l253"
                /\ loc' = [loc EXCEPT !.stop_waypoint_idx = r.wp]
                /\ UNCHANGED <<stabilizer, published, branch, ret, run, seen_red>>
    /\ UNCHANGED <<snapshots, stop_line_positions_poses, has_image, gcw_vars>>

\* lines 253-255 and 97-107
image_l253 ==
    /\ pc = "l253"
    /\ frame_end(lines_253_255(loc.light_idx, loc.stop_waypoint_idx))
    /\ pc' = "idle"
    /\ loc' = NoLocals
    /\ UNCHANGED <<snapshots, stop_line_positions_poses, has_image, gcw_vars>>

NextThreads ==
    pose_cb \/ waypoints_cb \/ traffic_cb \/ image_l223 \/ image_l230 \/ image_l253

SpecThreads == Init /\ [][NextThreads]_vars

-----------------------------------------------------------------------------
(* get_closest_waypoint on its own: the arguments are drawn in the initial *)
(* state and one step makes the call.                                      *)

\* reference poses; from the origin (400, 0) and (240, 320) lie at the
\* cutoff exactly and (300, 0), (-300, 0) lie at one distance
RefPoses == { Pose(0, 0, 1, 0), Pose(100, 0, 1, 0) }

Candidates ==
    { Waypoint(240, 320), Waypoint(400, 0), Waypoint(300, 0),
      Waypoint(-300, 0), Waypoint(500, 0) }

CandidateLists == UNION { [1..n -> Candidates] : n \in 0..MaxCands }

InitGCW ==
    /\ pose = None
    /\ waypoints = None
    /\ lights = <<>>
    /\ stop_line_positions_poses = <<>>
    /\ has_image = FALSE
    /\ state = UNKNOWN
    /\ last_state = UNKNOWN
    /\ last_wp = -1
    /\ state_count = 0
    /\ published = <<>>
    /\ branch = "-"
    /\ ret = Return(-1, UNKNOWN)
    /\ run = [color |-> UNKNOWN, len |-> 0, first |-> TRUE]
    /\ seen_red = FALSE
    /\ pc = "idle"
    /\ loc = NoLocals
    /\ gcw_pc = "call"
    /\ gcw_args \in [pose : RefPoses \cup {None},
                     waypoints : {None} \cup {PyList(c) : c \in CandidateLists},
                     mode : {"None", "forward"}]
    /\ gcw_ret = NoneIdx

call_get_closest_waypoint ==
    /\ gcw_pc = "call"
    /\ gcw_ret' = get_closest_waypoint(gcw_args.pose, gcw_args.waypoints,
                                       gcw_args.mode)
    /\ gcw_pc' = "return"
    /\ UNCHANGED <<snapshots, stop_line_positions_poses, has_image, stabilizer,
                   published, branch, ret, run, seen_red, thread_vars, gcw_args>>

NextGCW == call_get_closest_waypoint

SpecGCW == InitGCW /\ [][NextGCW]_vars

-----------------------------------------------------------------------------
(* Properties *)

\* the last callback was image_cb
Frame == branch # "-"

\* the last callback was image_cb and process_traffic_lights returned
Resolved == branch \in {"change", "commit", "hold"}

\* the candidate lies ahead of the reference heading: the forward vector
\* and the vector to the candidate make an acute angle
Ahead(ref, cand) ==
    (cand.position[1] - ref.position[1]) * ref.orientation[1]
  + (cand.position[2] - ref.position[2]) * ref.orientation[2] > 0

\* C1: every value published is -1 or a valid index into the route that is
\* current when it is published.
C1_PublishedIndexValid ==
    \A k \in 1..Len(published) :
        \/ published[k] = -1
        \/ /\ waypoints # None
           /\ published[k] \in 0..(Len(waypoints.waypoints) - 1)

\* C2: every frame that image_cb resolves publishes exactly one value, the
\* committed index.
C2_OnePublishPerFrame ==
    Resolved => (Len(published) = 1 /\ published[1] = last_wp)

\* C3: in the run of frames that starts from the initial stabilizer state,
\* the STATE_COUNT_THRESHOLD-th frame with the raw color c commits c and
\* publishes the stabilized output (the resolved index for RED, else -1).
C3_CommitOnThresholdFrame ==
    (Resolved /\ run.first /\ run.len = STATE_COUNT_THRESHOLD)
        => /\ last_state = run.color
           /\ published = << IF run.color = RED THEN ret.wp ELSE -1 >>

\* C4: a frame whose raw color differs from the previous raw color leaves
\* the counter at 0 + 1 and does not change last_state and last_wp.
C4_ChangeFrameKeepsCommitted ==
    [][ (branch' \in {"change", "commit", "hold"} /\ ret'.state # state)
            => /\ state_count' = 0 + 1
               /\ last_state' = last_state
               /\ last_wp' = last_wp ]_vars

\* C4 witness: a frame changed the raw color after an index had been
\* committed for RED, and the committed output is still there.
C4_Witness ==
    /\ branch = "change"
    /\ state # RED
    /\ last_state = RED
    /\ last_wp # -1
    /\ state_count = 1

\* C5: a frame processed while the pose or the route is absent resolves to
\* (-1, UNKNOWN) and raises nothing.
C5_AbsentSnapshotNoLight ==
    (Frame /\ (pose = None \/ waypoints = None)) => ret = Return(-1, UNKNOWN)

\* one of the four searches of process_traffic_lights finds no candidate
NoCandidate ==
    \/ light_idx = NoneIdx
    \/ /\ light_idx # NoneIdx
       /\ \/ stop_line_idx = NoneIdx
          \/ stop_forward_idx = NoneIdx
          \/ /\ stop_line_idx # NoneIdx
             /\ stop_waypoint_idx = NoneIdx

\* C6: with pose and route present, a frame in which one of the searches
\* finds no candidate resolves to (-1, UNKNOWN) and raises nothing.
C6_NoCandidateNoLight ==
    (Frame /\ pose # None /\ waypoints # None /\ NoCandidate)
        => ret = Return(-1, UNKNOWN)

\* C7: a frame in which the stop line nearest the matched light and the
\* stop line matched from the car pose have different indices resolves to
\* (-1, UNKNOWN).
C7_DisagreementNoLight ==
    (Frame /\ pose # None /\ light_idx # NoneIdx
           /\ stop_line_idx # stop_forward_idx)
        => ret = Return(-1, UNKNOWN)

\* C7 witness: both stop-line searches matched, on different stop lines, for
\* a RED light with a route present.
C7_Witness ==
    /\ Frame /\ pose # None /\ waypoints # None
    /\ light_idx # NoneIdx
    /\ subscript(lights, light_idx).state = RED
    /\ stop_line_idx # NoneIdx
    /\ stop_forward_idx # NoneIdx
    /\ stop_line_idx # stop_forward_idx
    /\ ret = Return(-1, UNKNOWN)

\* C8: a frame that resolves to a waypoint index does so for a light and a
\* stop line that lie ahead of the car.
C8_MatchesAhead ==
    (Resolved /\ ret.wp # -1)
        => /\ Ahead(pose.pose, subscript(lights, light_idx).pose)
           /\ Ahead(pose.pose,
                    subscript(stop_line_positions_poses, stop_forward_idx).pose)

\* the stand-alone call has returned from the search in the "nearest" mode
Searched ==
    /\ gcw_pc = "return"
    /\ gcw_args.mode = "None"
    /\ gcw_args.pose # None
    /\ gcw_args.waypoints # None

\* distance (squared) of candidate i (0-based) of the stand-alone call
gcw_dist(i) ==
    get_distance_between_poses(gcw_args.waypoints.list[i + 1].pose, gcw_args.pose)

gcw_indices == 0..(Len(gcw_args.waypoints.list) - 1)

\* C9: the index the non-directional search returns is that of a candidate
\* no farther than the cutoff.
C9_WithinCutoff ==
    (Searched /\ gcw_ret # NoneIdx)
        => /\ gcw_ret \in gcw_indices
           /\ gcw_dist(gcw_ret) <= 400 * 400

\* C9 witness: an index is returned although an earlier candidate lies
\* beyond the cutoff.
C9_Witness ==
    /\ Searched
    /\ gcw_ret \in gcw_indices
    /\ \E j \in gcw_indices : j < gcw_ret /\ gcw_dist(j) > 400 * 400

\* the result is the lowest index among the candidates at minimum distance
IsLowestNearest ==
    /\ gcw_ret \in gcw_indices
    /\ \A j \in gcw_indices : gcw_dist(gcw_ret) <= gcw_dist(j)
    /\ \A j \in gcw_indices : j < gcw_ret => gcw_dist(j) > gcw_dist(gcw_ret)

\* C10 as stated: with a candidate within the cutoff (at most 400 away) the
\* search returns the lowest index among the nearest candidates.
C10_NearestWithinCutoff ==
    (Searched /\ \E i \in gcw_indices : gcw_dist(i) <= 400 * 400)
        => IsLowestNearest

\* C10 amended: with a candidate whose distance is less than 400 the search
\* returns the lowest index among the nearest candidates.
C10_NearestBelowCutoff ==
    (Searched /\ \E i \in gcw_indices : gcw_dist(i) < 400 * 400)
        => IsLowestNearest

\* C10 witness: two candidates at the minimum distance, the lower index
\* returned, after a candidate that is farther.
C10_Witness ==
    /\ Searched
    /\ gcw_ret \in gcw_indices
    /\ gcw_ret > 0
    /\ \E j \in gcw_indices : j > gcw_ret /\ gcw_dist(j) = gcw_dist(gcw_ret)

\* C11: as long as no frame has resolved to the raw color RED, every value
\* published is -1 (and -1 is the committed index).
C11_NoRedNoStop ==
    ~seen_red => /\ \A k \in 1..Len(published) : published[k] = -1
                 /\ last_wp = -1

\* C11 witness: a color other than RED is committed in a frame that
\* resolved to a route index, and -1 is published.
C11_Witness ==
    /\ ~seen_red
    /\ branch = "commit"
    /\ state \in {GREEN, YELLOW}
    /\ ret.wp # -1
    /\ published = <<-1>>

\* i (0-based) is the lowest index among the candidates of list nearest to
\* ref, and that candidate is nearer than the cutoff
IsNearestIdx(ref, list, i) ==
    LET D(j) == get_distance_between_poses(list[j + 1].pose, ref)
        idxs == 0..(Len(list) - 1)
    IN  /\ i \in idxs
        /\ D(i) < 400 * 400
        /\ \A j \in idxs : D(i) <= D(j)
        /\ \A j \in idxs : j < i => D(j) > D(i)

\* the route x = 0,10,20,30,40, a RED light at (25,0), a stop line at (22,0)
\* and the car at (0,0) heading +x
ScenarioA ==
    /\ pose = PoseStamped(0, 0, 1, 0)
    /\ waypoints = Lane(<<Waypoint(0, 0), Waypoint(10, 0), Waypoint(20, 0),
                          Waypoint(30, 0), Waypoint(40, 0)>>)
    /\ lights = <<TrafficLight(25, 0, RED)>>
    /\ stop_line_positions_poses = <<StopLine(22, 0)>>

C14_IndexIffRed == (last_wp # -1) <=> (last_state = RED)

\* C14 witness: RED has just been committed together with a route index.
C14_Witness ==
    /\ branch = "commit"
    /\ last_state = RED
    /\ last_wp # -1
    /\ published = <<last_wp>>

\* at most one of the three snapshots is replaced in the step
OneSnapshotReplaced ==
    \/ waypoints' = waypoints /\ lights' = lights
    \/ pose' = pose /\ lights' = lights
    \/ pose' = pose /\ waypoints' = waypoints

\* C15: a step of pose_cb, waypoints_cb or traffic_cb replaces one snapshot,
\* leaves the stabilization state alone and publishes nothing; a step of
\* image_cb replaces no snapshot; no step changes the stop-line list.
C15_OnlyImageCbStabilizes ==
    [][ /\ stop_line_positions_poses' = stop_line_positions_poses
        /\ (branch' = "-") => /\ stabilizer' = stabilizer
                              /\ published' = <<>>
                              /\ OneSnapshotReplaced
        /\ (branch' # "-") => snapshots' = snapshots ]_vars

\* C15 witness: a snapshot callback has run after RED was committed with an
\* index, and the stabilization state is still there.
C15_Witness ==
    /\ branch = "-"
    /\ published = <<>>
    /\ last_state = RED
    /\ last_wp # -1
    /\ state_count > STATE_COUNT_THRESHOLD

\* C16: when image_cb reads self.lights again (lines 230 and 253), it is
\* the list the light index was matched in, and the index is valid in it.
C16_OneLightsSnapshot ==
    [][ (pc \in {"l230", "l253"} /\ pc' # pc)
            => /\ lights = loc.lights
               /\ loc.light_idx \in 0..(Len(lights) - 1) ]_vars

\* the stand-alone call has returned from the search in the "forward" mode
SearchedForward ==
    /\ gcw_pc = "return"
    /\ gcw_args.mode = "forward"
    /\ gcw_args.pose # None
    /\ gcw_args.waypoints # None

\* the candidates nearer than the cutoff that lie ahead of the reference
gcw_ahead ==
    { i \in gcw_indices :
        /\ gcw_dist(i) < 400 * 400
        /\ Ahead(gcw_args.pose, gcw_args.waypoints.list[i + 1].pose) }

\* C17: in the "forward" mode the search returns the nearest candidate
\* ahead of the reference within the cutoff, and no match only if there is
\* none (the code has no "not supported" outcome: it never raises).
C17_ForwardNearestAhead ==
    SearchedForward
        => IF gcw_ahead = {}
           THEN gcw_ret = NoneIdx
           ELSE /\ gcw_ret \in gcw_ahead
                /\ \A j \in gcw_ahead : gcw_dist(gcw_ret) <= gcw_dist(j)
                /\ \A j \in gcw_ahead : j < gcw_ret => gcw_dist(j) > gcw_dist(gcw_ret)

\* the call is one of the three no-match cases: an argument is None, or
\* the list is empty or has no candidate nearer than the cutoff
NoMatchCase ==
    \/ gcw_args.pose = None
    \/ gcw_args.waypoints = None
    \/ \A i \in gcw_indices : gcw_dist(i) >= 400 * 400

\* C18: in every no-match case the search returns the one outcome the
\* caller tests for (None, lines 225 and 243).
C18_OneNoMatchOutcome ==
    (gcw_pc = "return" /\ NoMatchCase) => gcw_ret = NoneIdx

\* C19: a frame that follows the commit frame of its run (the frame number
\* STATE_COUNT_THRESHOLD + 1 of the run) is a commit frame again: it
\* publishes the index resolved in this very frame for RED, else -1.
C19_EveryLaterFrameCommits ==
    (Resolved /\ run.len > STATE_COUNT_THRESHOLD + 1)
        => /\ branch = "commit"
           /\ last_state = run.color
           /\ published = << IF run.color = RED THEN ret.wp ELSE -1 >>

\* C19 witness: the frame after the commit frame of a RED run has committed
\* again and published the index it resolved.
C19_Witness ==
    /\ Resolved
    /\ run.len = STATE_COUNT_THRESHOLD + 2
    /\ run.color = RED
    /\ branch = "commit"
    /\ ret.wp # -1
    /\ published = <<ret.wp>>

====
